---------------------------- MODULE Spec2Model ----------------------------
(***************************************************************************)
(* State-machine model of the ProgressBar extension type of                *)
(* src/ProgressBar/ProgressBar.pyx.  The file holds two variants of the    *)
(* class:                                                                  *)
(*   "seq"  the sequence-aware variant, lines 20-192, declared by          *)
(*          src/unnamed/part_000 (num_jobs unsigned long, _index,          *)
(*          sequence);                                                     *)
(*   "int"  the integer-only variant, lines 246-373, declared by           *)
(*          src/ProgressBar/ProgressBar.pxd (num_jobs int).                *)
(* One bar is modelled; which variant it is is fixed at construction.      *)
(*                                                                         *)
(* Time is the wall clock read by time.time(), in integer ticks; __str__   *)
(* takes an execution time to be a number of milliseconds.                 *)
(* What is written to standard output by the last call is kept in out, as  *)
(* a sequence of lines [kind, bar, text, eta]:                             *)
(*   "empty"    the "[    ] 0%" line of the constructor                    *)
(*   "status"   the carriage-return status line (no newline)               *)
(*   "final"    a "100%" line followed by a newline                        *)
(*   "summary"  the "Execution time: ..." line                             *)
(* bar is the number of "=" glyphs of the line, text the duration string   *)
(* of a summary line, eta the remaining time shown by a status line.       *)
(***************************************************************************)
EXTENDS Integers, Sequences, FiniteSets, TLC

\* ------------------------------------------------------------------ bounds
\* integer totals 0..MaxTotal
MaxTotal == 1
\* a total whose square is a multiple of 100
RoundTotal == 10
\* a total with a percentage that a double rounds down
LargeTotal == 50
\* increment amounts 0..MaxAmount
MaxAmount == 1
\* one large increment amount
LargeAmount == 29
\* length of the sequence given to the constructor
MaxLen == 2
\* print_interval in 0..MaxInterval ticks
MaxInterval == 1
\* the clock advances 0..MaxTick ticks before a call
MaxTick == 2
\* number of calls made on the bar
MaxOps == 3
\* calls that would take the percentage beyond are cut
MaxPercent == 300
\* durations given to __str__ are up to this many steps of each scale
MaxMantissa == 40
\* lines on the standard input of a command-line run
MaxLines == 2

\* the width of the full bar: "=" * int(50)
BarWidth == 50

Items == {"a", "b"}

Variants == {"seq", "int"}

\* time.time() at construction: later than any print_interval considered
Epoch == MaxInterval + 1

VARIABLES
    variant,          \* which class body the bar runs
    num_jobs, _value, progress, errors,
    start_time, end_time, execution_time, last_print_time,
    print_on_exit, print_interval, throughput,
    sequence, _index,
    now,              \* the wall clock
    region,           \* "none", "open", "closed": the with-block
    lastOp,           \* the call made last
    result,           \* how that call ended, as seen by the caller
    out,              \* what that call wrote
    status_time,      \* current_time of the last increment that wrote a status line, -1 if none
    summaries,        \* summary lines written since the region was entered
    returned,         \* the items __next__ has returned, in order
    history,          \* the kinds of calls made so far, see Combine
    assigned,         \* the number the last call gave the value setter, -1 if it was another call
    text,             \* the string the last call returned, when it was __str__
    cli,              \* the command-line run, NoCli when the bar is used as a library
    jobs,             \* what the constructor was given: "int", "list" or "iterator"
    nops

vars == <<variant, num_jobs, _value, progress, errors, start_time, end_time,
          execution_time, last_print_time, print_on_exit, print_interval,
          throughput, sequence, _index, now, region, lastOp, result, out,
          status_time, summaries, returned, history, assigned, text, cli, jobs,
          nops>>

\* ----------------------------------------------------------- pure helpers
Abs(x) == IF x < 0 THEN -x ELSE x

\* A double quotient num/den; 0 is <<0, 1>>.
Ratio(num, den) == <<num, den>>

(***************************************************************************)
(* A string made by __str__ from its template: prefix is <<>> or <<h>> for *)
(* the leading "{hours:.0f} ", number the value formatted next, decimals   *)
(* the precision it is formatted with, unit the name that follows it.      *)
(***************************************************************************)
Text(prefix, number, decimals, unit) ==
    [prefix |-> prefix, number |-> number, decimals |-> decimals, unit |-> unit]

\* no string
NoText == Text(<<>>, Ratio(0, 1), 0, "")

(***************************************************************************)
(* remaining_time, the product (elapsed / done) * (num_jobs - _value):     *)
(* left is num_jobs - _value as an integer, and wraps tells that the C     *)
(* difference is left + 2^64 instead.                                      *)
(***************************************************************************)
Eta(elapsed, done, wraps, left) ==
    [elapsed |-> elapsed, done |-> done, wraps |-> wraps, left |-> left]

\* remaining_time = 0; also the eta of the lines that show none
ZeroEta == Eta(0, 1, FALSE, 0)

Line(kind, bar) == [kind |-> kind, bar |-> bar, text |-> NoText, eta |-> ZeroEta]

Has(o, kind) == \E i \in 1..Len(o) : o[i].kind = kind

Count(o, kind) == Cardinality({i \in 1..Len(o) : o[i].kind = kind})

(***************************************************************************)
(* <int>(self._value / self.num_jobs * 100): both operands become doubles, *)
(* the quotient and the product are each rounded to nearest, and the cast  *)
(* truncates toward zero.  When 100*v/n is not an integer it is at least   *)
(* 1/n away from one, far more than the rounding error, and truncation     *)
(* gives the exact floor.  When 100*v/n is an integer k, v/n = k/100 and   *)
(* the result is trunc(RN(RN(k/100)*100)), which is k-1 for the k of       *)
(* DoubleShortfall (e.g. 29/50*100 = 57.99999999999999) and k otherwise.   *)
(* The set lists every such k up to 400.                                   *)
(***************************************************************************)
DoubleShortfall ==
    {29, 57, 58, 113, 114, 115, 116, 201, 203, 205, 207, 226, 228, 230, 232,
     251, 253, 255}

PercentOf(v, n) ==
    LET a == Abs(100 * v)
        b == Abs(n)
        q == a \div b
        m == IF a % b = 0 /\ q \in DoubleShortfall THEN q - 1 ELSE q
    IN  IF (v < 0) # (n < 0) THEN -m ELSE m

\* "=" * int(self.progress / 2): truncation, and no glyph for a negative count
BarOf(p) == IF p > 0 THEN p \div 2 ELSE 0

\* mutant of ThrottleElapsed: the comparison lets an equal gap through
ThrottleElapsedOrEqual(cur, last, interval) == cur - last >= interval

\* current_time - self.last_print_time > self.print_interval
ThrottleElapsed(cur, last, interval) == cur - last > interval

\* the final line of increment is written when self._value == self.num_jobs
ReachedTotal(v, n) == v = n

\* the integer-only variant calls complete() when self.progress == self.num_jobs
ProgressIsTotal(p, n) == p = n

\* mutant of CompleteValue: the counter is reset instead of forced to the total
CompleteValueReset(v, n) == 0

\* complete(): self._value = self.num_jobs
CompleteValue(v, n) == n

\* mutant of UpdateProgress: the counter is added to the percentage
UpdateProgressAdded(p, v) == p + v

\* update(): self.progress = self._value
UpdateProgress(p, v) == v

\* mutant of CountError: the handler passes without counting
CountErrorSkipped(e) == e

\* except ZeroDivisionError: self.errors += 1
CountError(e) == e + 1

\* mutant of SetterStores: the assignment is dropped
SetterKeeps(old, new_value) == old

\* value.setter: self._value = new_value
SetterStores(old, new_value) == new_value

\* __next__: self._index += 1
NextIndex(i) == i + 1

\* mutant of ItemAt: the cursor is ignored
ItemAtStart(s, i) == s[1]

\* __next__: item = self.sequence[self._index]
ItemAt(s, i) == s[i + 1]

\* __init__: num_jobs = len(list(jobs))
SeqTotal(s) == Len(s)

\* __exit__: return exc_type is not None
ExitReturn(exc) == exc

\* the with statement re-raises the body's exception unless __exit__ returned true
WithResult(exc, ret) ==
    IF ~exc THEN "returned" ELSE IF ret THEN "suppressed" ELSE "propagated"


\* ---------------------------------------------------------------- __str__
\* TimeUnits.ms = 1e-3: milliseconds in a second
MsPerSecond == 1000

\* TimeUnits, in definition order
UnitNames == <<"ms", "seconds", "minutes", "hours", "days">>

\* TimeUnits values of the units that divide time_seconds
UnitValue(name) ==
    CASE name = "seconds" -> 1
      [] name = "minutes" -> 60
      [] name = "hours" -> 60 * 60
      [] name = "days" -> 24 * 60 * 60

(***************************************************************************)
(* time_seconds is kept exactly, as n milliseconds divided by d:           *)
(* time_seconds = n / (MsPerSecond * d).                                   *)
(***************************************************************************)
\* mutant of Below: the comparison lets the threshold itself through
BelowOrEqual(n, d, k) == (n \div d) <= MsPerSecond * k

\* time_seconds < k, for a whole number k
Below(n, d, k) == (n \div d) < MsPerSecond * k

\* mutant of Within: the whole value instead of the remainder
WithinDropped(n, d, m) == Ratio(Abs(n), MsPerSecond * d)

\* fabs(time_seconds % m)
Within(n, d, m) == Ratio(Abs(n % (MsPerSecond * d * m)), MsPerSecond * d)

\* fabs(time_seconds / m)
Over(n, d, m) == Ratio(Abs(n), MsPerSecond * d * m)

(***************************************************************************)
(* The loop of __str__ from unit number i on, with the locals minutes and  *)
(* seconds as they stand; after the last unit, the hour-prefixed return.   *)
(***************************************************************************)
RECURSIVE StrLoop(_, _, _, _, _)
StrLoop(i, n, d, minutes, seconds) ==
    IF i > Len(UnitNames)
    THEN Text(<<Ratio(Abs(n), MsPerSecond * d)>>, minutes, 0, "minutes")
    ELSE IF Below(n, d, UnitValue("seconds"))
    THEN Text(<<>>, Ratio(n, d), 0, "ms")
    ELSE IF UnitNames[i] = "ms"
    THEN StrLoop(i + 1, n, d, minutes, seconds)
    ELSE LET d2 == d * UnitValue(UnitNames[i])
         IN  IF Below(n, d2, UnitValue("minutes"))
             THEN Text(<<>>, seconds, 2, UnitNames[i])
             ELSE IF Below(n, d2, UnitValue("hours"))
             THEN Text(<<>>, seconds, 0, UnitNames[i])
             ELSE StrLoop(i + 1, n, d2,
                          Over(n, d2, UnitValue("hours")),
                          Within(n, d2, UnitValue("hours")))

\* __str__ of a bar whose execution_time is n milliseconds
Str(n) ==
    StrLoop(1, n, 1, Over(n, 1, UnitValue("minutes")),
            Within(n, 1, UnitValue("minutes")))

\* ----------------------------------------------------------- command line
\* a command-line run: where main() is, its argument and input, what it did
Cli(pc, argv, stdin) ==
    [pc |-> pc, argv |-> argv, stdin |-> stdin, pos |-> 0, increments |-> 0,
     completes |-> 0, interrupted |-> FALSE, usage |-> FALSE,
     traceback |-> FALSE, status |-> -1]

\* sys.argv[1]: missing, a string holding "-h", or the digits of n
Arg(kind, n) == [kind |-> kind, n |-> n]

\* no command-line run
NoCli == Cli("off", Arg("absent", 0), <<>>)

\* -------------------------------------------------- the bar as one record
Self ==
    [num_jobs |-> num_jobs, _value |-> _value, progress |-> progress,
     errors |-> errors, start_time |-> start_time, end_time |-> end_time,
     execution_time |-> execution_time, last_print_time |-> last_print_time,
     throughput |-> throughput, out |-> <<>>]

\* the fields __init__ gives a bar of n jobs constructed at time t
Fresh(n, t) ==
    [num_jobs |-> n, _value |-> 0, progress |-> 0, errors |-> 0,
     start_time |-> IF variant = "seq" THEN t ELSE 0,
     end_time |-> 0, execution_time |-> 0,
     last_print_time |-> IF variant = "seq" THEN t ELSE 0,
     throughput |-> Ratio(0, 1), out |-> <<>>]

Write(self, line) == [self EXCEPT !.out = Append(@, line)]

\* print(f"Execution time: {self!s}") when print_on_exit is set
Summary(self) ==
    IF print_on_exit
    THEN Write(self, [Line("summary", 0) EXCEPT !.text = Str(self.execution_time)])
    ELSE self

\* integer-only variant, update(): the 100% line and a newline
update_int(self) ==
    Write([self EXCEPT !.progress = UpdateProgress(self.progress, self._value)],
          Line("final", BarWidth))

\* integer-only variant, complete()
complete_int(self) ==
    Summary(update_int(
        [self EXCEPT !._value = CompleteValue(self._value, self.num_jobs)]))

\* sequence-aware variant, complete(): only the 100% line
complete_seq(self) == Write(self, Line("final", BarWidth))

(***************************************************************************)
(* num_jobs - self._value: the sequence-aware variant declares num_jobs    *)
(* unsigned long, so the int _value is converted and a negative difference *)
(* wraps around; both fields are int in the integer-only variant.          *)
(***************************************************************************)
Wraps(v, n) == variant = "seq" /\ v > n

\* remaining_time of the status line
Remaining(elapsed, v, n) ==
    IF v > 0 THEN Eta(elapsed, v, Wraps(v, n), n - v) ELSE ZeroEta

\* -1, 0 or 1 as remaining_time is negative, zero or positive
EtaSign(eta) ==
    IF eta.elapsed = 0 THEN 0
    ELSE IF eta.wraps \/ eta.left > 0 THEN 1
    ELSE IF eta.left = 0 THEN 0
    ELSE -1

\* the throttled block of increment: timestamps, throughput and the status line
Render(self, t1, t2) ==
    LET started == self.start_time
        elapsed == t2 - started
    IN  Write([self EXCEPT !.last_print_time = t1,
                           !.execution_time = elapsed,
                           !.throughput = IF elapsed > 0
                                          THEN Ratio(self._value, elapsed)
                                          ELSE Ratio(0, 1)],
              [Line("status", BarOf(self.progress))
                 EXCEPT !.eta = Remaining(elapsed, self._value, self.num_jobs)])

(***************************************************************************)
(* increment(amount).  t1 is the clock read into current_time (and into    *)
(* start_time when that is still 0), t2 >= t1 the later read for           *)
(* execution_time; the actions take both reads in the same tick.           *)
(* A zero total raises ZeroDivisionError at the                            *)
(* percentage, after _value has been added to; the handler counts it and   *)
(* the rest of the body is skipped.                                        *)
(***************************************************************************)
increment(self, amount, t1, t2) ==
    LET s0 == [self EXCEPT !.start_time = IF @ = 0 THEN t1 ELSE @,
                           !._value = @ + amount]
        s1 == [s0 EXCEPT !.progress = PercentOf(s0._value, s0.num_jobs)]
        due == ThrottleElapsed(t1, s1.last_print_time, print_interval)
    IN  IF s0.num_jobs = 0
        THEN [s0 EXCEPT !.errors = CountError(@)]
        ELSE IF variant = "seq"
        THEN LET s2 == IF due THEN Render(s1, t1, t2) ELSE s1
             IN  IF ReachedTotal(s2._value, s2.num_jobs)
                 THEN Write(s2, Line("final", BarOf(s2.progress)))
                 ELSE s2
        ELSE IF due
             THEN Render(s1, t1, t2)
             ELSE IF ProgressIsTotal(s1.progress, s1.num_jobs)
                  THEN complete_int(s1)
                  ELSE s1

\* mutant of exit: every variant calls complete() on the way out
exitCompleting(self, t) ==
    complete_int([self EXCEPT !.end_time = t,
                              !.execution_time = t - self.start_time])

\* __exit__: the timestamps, then the summary (seq) or complete() (int)
exit(self, t) ==
    LET s0 == [self EXCEPT !.end_time = t, !.execution_time = t - self.start_time]
    IN  IF variant = "seq" THEN Summary(s0) ELSE complete_int(s0)

Assign(s) ==
    /\ num_jobs' = s.num_jobs
    /\ _value' = s._value
    /\ progress' = s.progress
    /\ errors' = s.errors
    /\ start_time' = s.start_time
    /\ end_time' = s.end_time
    /\ execution_time' = s.execution_time
    /\ last_print_time' = s.last_print_time
    /\ throughput' = s.throughput
    /\ out' = s.out
    /\ summaries' = summaries + Count(s.out, "summary")

(***************************************************************************)
(* The kinds of calls made since construction: "none", the one kind made   *)
(* so far, "inc_complete" when only increment and complete were called,    *)
(* "mixed" otherwise.                                                      *)
(***************************************************************************)
Combine(h, op) ==
    IF h \in {"none", op} THEN op
    ELSE IF {h, op} \subseteq {"increment", "complete", "inc_complete"}
    THEN "inc_complete"
    ELSE "mixed"

Called(op, res) ==
    /\ lastOp' = op
    /\ result' = res
    /\ history' = Combine(history, op)
    /\ IF op = "set" THEN TRUE ELSE assigned' = -1
    /\ text' = NoText
    /\ cli' = cli
    /\ jobs' = jobs
    /\ nops' = nops + 1

\* calls that would take the percentage beyond MaxPercent are not explored
WithinCap(v) == num_jobs > 0 => 100 * v <= MaxPercent * num_jobs

\* ------------------------------------------------------------------- Init
IntTotals == (0..MaxTotal) \cup {RoundTotal, LargeTotal}

\* the lists given to the constructor: neighbouring items differ
Lists ==
    {s \in UNION {[1..k -> Items] : k \in 0..MaxLen} :
        \A i \in 1..(Len(s) - 1) : s[i] # s[i + 1]}

InitCommon ==
    /\ print_on_exit \in BOOLEAN
    /\ print_interval \in 0..MaxInterval
    /\ _value = 0 /\ progress = 0 /\ errors = 0 /\ _index = 0
    /\ end_time = 0 /\ execution_time = 0
    /\ throughput = Ratio(0, 1)
    /\ now = Epoch
    /\ region = "none" /\ lastOp = "init" /\ result = "returned"
    /\ status_time = -1 /\ summaries = 0
    /\ returned = <<>> /\ history = "none" /\ assigned = -1 /\ nops = 0
    /\ text = NoText
    /\ cli = NoCli

(***************************************************************************)
(* Sequence-aware __init__: an int (non-negative, a negative one does not  *)
(* convert to the unsigned long field), a list, or an iterator over the    *)
(* items of a list; start_time and last_print_time are the construction    *)
(* time.  sequence is <<>> while the attribute is unset and <<s>> when it  *)
(* holds the list s.                                                       *)
(***************************************************************************)
(***************************************************************************)
(* list(jobs) evaluated a second time, after len(list(jobs)): a list gives *)
(* its items again, an iterator has none left.                             *)
(***************************************************************************)
SecondList(kind, s) == IF kind = "list" THEN s ELSE <<>>

InitSeq ==
    /\ variant = "seq"
    /\ \/ num_jobs \in IntTotals /\ sequence = <<>> /\ jobs = "int"
       \/ \E s \in Lists, kind \in {"list", "iterator"} :
            /\ num_jobs = SeqTotal(s)
            /\ sequence = <<SecondList(kind, s)>>
            /\ jobs = kind
    /\ start_time = Epoch /\ last_print_time = Epoch
    /\ out = <<>>
    /\ InitCommon

(***************************************************************************)
(* Integer-only __init__: the unsigned long argument is stored in the int  *)
(* field, so 4294967295 gives the sentinel -1; start_time is left at the   *)
(* 0 of a fresh object and last_print_time is set to 0.0.                  *)
(***************************************************************************)
InitInt ==
    /\ variant = "int"
    /\ num_jobs \in IntTotals \cup {-1}
    /\ sequence = <<>> /\ jobs = "int"
    /\ start_time = 0 /\ last_print_time = 0
    /\ out = IF num_jobs = -1 THEN <<Line("empty", 0)>> ELSE <<>>
    /\ InitCommon

Init == InitSeq \/ InitInt

\* ---------------------------------------------------------------- actions
Increment(amount) ==
    /\ nops < MaxOps
    /\ WithinCap(_value + amount)
    /\ \E d \in 0..MaxTick :
         LET t1 == now + d
             s == increment(Self, amount, t1, t1)
         IN  /\ Assign(s)
             /\ now' = t1
             /\ status_time' = IF Has(s.out, "status") THEN t1 ELSE status_time
    /\ Called("increment", "returned")
    /\ UNCHANGED <<variant, print_on_exit, print_interval, sequence, _index,
                   region, returned>>

\* the value setter
SetValue(new_value) ==
    /\ nops < MaxOps
    /\ WithinCap(new_value)
    /\ _value' = SetterStores(_value, new_value)
    /\ assigned' = new_value
    /\ out' = <<>>
    /\ Called("set", "returned")
    /\ UNCHANGED <<variant, num_jobs, progress, errors, start_time, end_time,
                   execution_time, last_print_time, print_on_exit,
                   print_interval, throughput, sequence, _index, now, region,
                   status_time, summaries, returned>>

Complete ==
    /\ nops < MaxOps
    /\ Assign(IF variant = "seq" THEN complete_seq(Self) ELSE complete_int(Self))
    /\ Called("complete", "returned")
    /\ UNCHANGED <<variant, print_on_exit, print_interval, sequence, _index,
                   now, region, status_time, returned>>

\* __enter__
Enter ==
    /\ nops < MaxOps
    /\ region # "open"
    /\ \E d \in 0..MaxTick :
         /\ now' = now + d
         /\ start_time' = now + d
    /\ region' = "open"
    /\ summaries' = 0
    /\ out' = <<>>
    /\ Called("enter", "returned")
    /\ UNCHANGED <<variant, num_jobs, _value, progress, errors, end_time,
                   execution_time, last_print_time, print_on_exit,
                   print_interval, throughput, sequence, _index,
                   status_time, returned>>

\* __exit__ at the end of the with-block; exc: the body raised
Exit(exc) ==
    /\ nops < MaxOps
    /\ region = "open"
    /\ \E d \in 0..MaxTick :
         /\ now' = now + d
         /\ Assign(exit(Self, now + d))
    /\ region' = "closed"
    /\ Called("exit", WithResult(exc, ExitReturn(exc)))
    /\ UNCHANGED <<variant, print_on_exit, print_interval, sequence, _index,
                   status_time, returned>>

(***************************************************************************)
(* __next__ (sequence-aware variant only).  len(self.sequence) raises      *)
(* TypeError when the bar was built from an int and sequence is unset.     *)
(***************************************************************************)
NextItem ==
    /\ nops < MaxOps
    /\ variant = "seq"
    /\ IF sequence = <<>>
       THEN /\ Called("next", "TypeError")
            /\ out' = <<>>
            /\ UNCHANGED <<num_jobs, _value, progress, errors, start_time,
                           end_time, execution_time, last_print_time,
                           throughput, _index, now, status_time,
                           summaries, returned>>
       ELSE IF _index < Len(sequence[1])
       THEN /\ WithinCap(_value + 1)
            /\ _index' = NextIndex(_index)
            /\ returned' = Append(returned, ItemAt(sequence[1], _index))
            /\ \E d \in 0..MaxTick :
                 LET t1 == now + d
                     s == increment(Self, 1, t1, t1)
                 IN  /\ Assign(s)
                     /\ now' = t1
                     /\ status_time' = IF Has(s.out, "status") THEN t1 ELSE status_time
            /\ Called("next", "item")
       ELSE /\ Called("next", "StopIteration")
            /\ out' = <<>>
            /\ UNCHANGED <<num_jobs, _value, progress, errors, start_time,
                           end_time, execution_time, last_print_time,
                           throughput, _index, now, status_time,
                           summaries, returned>>
    /\ UNCHANGED <<variant, print_on_exit, print_interval, sequence, region>>

\* the amounts passed to increment: far below the width of the C counters,
\* whose wrap-around is not modelled
Amounts == (0..MaxAmount) \cup {LargeAmount}

\* the values assigned through the value setter
Values == 0..(MaxTotal + 1)

Next ==
    \/ \E amount \in Amounts : Increment(amount)
    \/ \E new_value \in Values : SetValue(new_value)
    \/ Complete
    \/ Enter
    \/ \E exc \in BOOLEAN : Exit(exc)
    \/ NextItem

Spec == Init /\ [][Next]_vars

\* ------------------------------------------- __str__ on measured durations
\* the steps, in milliseconds, the durations are multiples of
Scales == {1, 10, 100, 1000, 10000, 100000, 1000000, 10000000}

\* execution times in milliseconds, from 0 to over a hundred hours
Durations == {m * s : m \in 0..MaxMantissa, s \in Scales}

(***************************************************************************)
(* A bar of either variant after an empty with-block that was entered at   *)
(* Epoch and left dur milliseconds later without an exception.             *)
(***************************************************************************)
InitStr ==
    /\ variant \in Variants
    /\ print_on_exit \in BOOLEAN
    /\ print_interval = 0
    /\ sequence = <<>> /\ _index = 0
    /\ \E dur \in Durations :
         LET fresh == [Fresh(RoundTotal, Epoch) EXCEPT !.start_time = Epoch]
             s == exit(fresh, Epoch + dur)
         IN  /\ num_jobs = s.num_jobs /\ _value = s._value
             /\ progress = s.progress /\ errors = s.errors
             /\ start_time = s.start_time /\ end_time = s.end_time
             /\ execution_time = s.execution_time
             /\ last_print_time = s.last_print_time
             /\ throughput = s.throughput
             /\ out = s.out
             /\ summaries = Count(s.out, "summary")
             /\ now = Epoch + dur
    /\ region = "closed" /\ lastOp = "exit" /\ result = "returned"
    /\ history = Combine("enter", "exit")
    /\ status_time = -1 /\ returned = <<>> /\ assigned = -1
    /\ text = NoText
    /\ cli = NoCli
    /\ jobs = "int"
    /\ nops = 2

\* str(bar)
ToStr ==
    /\ nops < MaxOps
    /\ text' = Str(execution_time)
    /\ lastOp' = "str"
    /\ result' = "returned"
    /\ history' = Combine(history, "str")
    /\ out' = <<>>
    /\ nops' = nops + 1
    /\ UNCHANGED <<variant, num_jobs, _value, progress, errors, start_time,
                   end_time, execution_time, last_print_time, print_on_exit,
                   print_interval, throughput, sequence, _index, now, region,
                   status_time, summaries, returned, assigned, cli, jobs>>

NextStr == ToStr

SpecStr == InitStr /\ [][NextStr]_vars

\* ----------------------------------------------------- the command line
\* the lines of standard input: empty ones and others
InputLines == {"", "x"}

Inputs == UNION {[1..k -> InputLines] : k \in 0..MaxLines}

Args == {Arg("absent", 0), Arg("help", 0)} \cup {Arg("int", n) : n \in IntTotals}

(***************************************************************************)
(* The process at the start of main(), of the module of either variant:    *)
(* no bar exists yet.  The bar main() constructs has the default           *)
(* print_on_exit and print_interval.                                       *)
(***************************************************************************)
InitCli ==
    /\ variant \in Variants
    /\ \E a \in Args, in \in Inputs : cli = Cli("start", a, in)
    /\ print_on_exit = TRUE /\ print_interval = MaxInterval
    /\ num_jobs = 0 /\ _value = 0 /\ progress = 0 /\ errors = 0
    /\ start_time = 0 /\ end_time = 0 /\ execution_time = 0
    /\ last_print_time = 0 /\ throughput = Ratio(0, 1)
    /\ sequence = <<>> /\ _index = 0
    /\ now = Epoch /\ region = "none"
    /\ lastOp = "main" /\ result = "returned" /\ out = <<>>
    /\ status_time = -1 /\ summaries = 0 /\ returned = <<>>
    /\ history = "none" /\ assigned = -1 /\ text = NoText /\ nops = 0
    /\ jobs = "int"

\* what no step of main() changes
CliFrame ==
    UNCHANGED <<variant, print_on_exit, print_interval, sequence, _index,
                status_time, returned, assigned, text, jobs, nops>>

(***************************************************************************)
(* main() up to the with statement.  sys.argv[1] is read before            *)
(* len(sys.argv) is looked at, so a missing argument is an IndexError.     *)
(* print_help() writes the usage and raises SystemExit(1); the cdef void   *)
(* print_help of the integer-only module passes the exception on or drops  *)
(* it, as the Cython release decides: dropped after "-h", int("-h") is a   *)
(* ValueError, and dropped in the else branch, the module runs to its end. *)
(***************************************************************************)
CliStart ==
    /\ cli.pc = "start"
    /\ \E dropped \in (IF variant = "int" THEN BOOLEAN ELSE {FALSE}) :
         LET a == cli.argv
         IN  IF a.kind = "absent"
             THEN /\ cli' = [cli EXCEPT !.pc = "exited", !.traceback = TRUE,
                                         !.status = 1]
                  /\ UNCHANGED <<num_jobs, _value, progress, errors, start_time,
                                 end_time, execution_time, last_print_time,
                                 throughput, out, summaries, region, lastOp,
                                 history>>
             ELSE IF a.kind = "help"
             THEN /\ cli' = [cli EXCEPT !.pc = "exited", !.usage = TRUE,
                                         !.traceback = dropped, !.status = 1]
                  /\ UNCHANGED <<num_jobs, _value, progress, errors, start_time,
                                 end_time, execution_time, last_print_time,
                                 throughput, out, summaries, region, lastOp,
                                 history>>
             ELSE IF a.n > 0
             THEN /\ Assign([Fresh(a.n, now) EXCEPT !.start_time = now])
                  /\ region' = "open"
                  /\ lastOp' = "enter"
                  /\ history' = Combine(history, "enter")
                  /\ cli' = [cli EXCEPT !.pc = "reading"]
             ELSE /\ Assign(Fresh(a.n, now))
                  /\ cli' = [cli EXCEPT !.pc = "exited", !.usage = TRUE,
                                         !.status = IF dropped THEN 0 ELSE 1]
                  /\ lastOp' = "init"
                  /\ UNCHANGED <<region, history>>
    /\ result' = "returned"
    /\ UNCHANGED now
    /\ CliFrame

(***************************************************************************)
(* The end of the with block: finally runs sys.exit(0), the SystemExit     *)
(* goes to __exit__, and main() ends: after the block when __exit__        *)
(* suppressed the exception, with the exception's status otherwise.        *)
(***************************************************************************)
CliLeave(self, t, c) ==
    /\ Assign(exit(self, t))
    /\ now' = t
    /\ region' = "closed"
    /\ lastOp' = "exit"
    /\ history' = Combine(history, "exit")
    /\ result' = WithResult(TRUE, ExitReturn(TRUE))
    /\ cli' = [c EXCEPT !.pc = "exited", !.status = 0]
    /\ CliFrame

\* input() returns a line that is not empty: pb.increment()
CliLine ==
    /\ cli.pc = "reading"
    /\ cli.pos < Len(cli.stdin)
    /\ cli.stdin[cli.pos + 1] # ""
    /\ WithinCap(_value + 1)
    /\ \E d \in 0..MaxTick :
         /\ Assign(increment(Self, 1, now + d, now + d))
         /\ now' = now + d
    /\ cli' = [cli EXCEPT !.pos = @ + 1, !.increments = @ + 1]
    /\ lastOp' = "increment"
    /\ history' = Combine(history, "increment")
    /\ result' = "returned"
    /\ UNCHANGED region
    /\ CliFrame

\* input() returns the empty line: the sentinel of iter(input, "") ends the loop
CliSentinel ==
    /\ cli.pc = "reading"
    /\ cli.pos < Len(cli.stdin)
    /\ cli.stdin[cli.pos + 1] = ""
    /\ \E d \in 0..MaxTick :
         CliLeave(Self, now + d, [cli EXCEPT !.pos = @ + 1])

\* input() raises EOFError at the end of standard input
CliEof ==
    /\ cli.pc = "reading"
    /\ cli.pos = Len(cli.stdin)
    /\ \E d \in 0..MaxTick : CliLeave(Self, now + d, cli)

\* KeyboardInterrupt while main() waits in input(): pb.complete(), sys.exit(0)
CliInterrupt ==
    /\ cli.pc = "reading"
    /\ \E d \in 0..MaxTick :
         CliLeave(IF variant = "seq" THEN complete_seq(Self) ELSE complete_int(Self),
                  now + d,
                  [cli EXCEPT !.interrupted = TRUE, !.completes = @ + 1])

NextCli ==
    \/ CliStart
    \/ CliLine
    \/ CliSentinel
    \/ CliEof
    \/ CliInterrupt

SpecCli == InitCli /\ [][NextCli]_vars

TypeOK ==
    /\ variant \in Variants
    /\ nops \in 0..MaxOps
    /\ region \in {"none", "open", "closed"}
    /\ errors >= 0

\* ------------------------------------------------------------------ claims
\* an increment was made by the last call: directly, or by __next__ for an item
IncrementCalled == lastOp = "increment" \/ (lastOp = "next" /\ result = "item")

(***************************************************************************)
(* C1: when the body of the with-block raises, __exit__ runs (end_time and *)
(* execution_time are set) and the error still reaches the caller:         *)
(* __exit__ never suppresses it.                                           *)
(***************************************************************************)
C1_ExitNeverSuppresses ==
    lastOp = "exit" =>
        /\ end_time = now
        /\ execution_time = end_time - start_time
        /\ result # "suppressed"

(***************************************************************************)
(* C2: for a total > 0, an increment after which _value equals num_jobs    *)
(* has written the fully-filled 100% line with its newline, whether or not *)
(* the throttle interval had elapsed.                                      *)
(***************************************************************************)
C2_ReachingTotalWritesFinal ==
    (lastOp = "increment" /\ num_jobs > 0 /\ _value = num_jobs) =>
        \E i \in 1..Len(out) : out[i] = Line("final", BarWidth)

(***************************************************************************)
(* C3: for a total > 0 and a run of increment calls that leaves            *)
(* _value <= num_jobs, after each increment progress is                    *)
(* floor(_value / num_jobs * 100).                                         *)
(***************************************************************************)
C3_PercentIsFloor ==
    (lastOp = "increment" /\ history = "increment" /\ num_jobs > 0
        /\ _value <= num_jobs) =>
        progress = (100 * _value) \div num_jobs

(***************************************************************************)
(* C4 as stated: with a total of 0 or the sentinel -1, every increment     *)
(* returns normally, raises errors by exactly one, leaves progress and     *)
(* throughput as they were and writes nothing.                             *)
(***************************************************************************)
C4_ZeroOrSentinelCountsError ==
    [][(lastOp' = "increment" /\ num_jobs \in {0, -1}) =>
          /\ result' = "returned"
          /\ errors' = errors + 1
          /\ progress' = progress
          /\ throughput' = throughput
          /\ out' = <<>>]_vars

(***************************************************************************)
(* C4 amended: with a total of 0, every increment returns normally, raises *)
(* errors by exactly one, leaves progress and throughput as they were and  *)
(* writes nothing.                                                         *)
(***************************************************************************)
C4_ZeroTotalCountsError ==
    [][(lastOp' = "increment" /\ num_jobs = 0) =>
          /\ result' = "returned"
          /\ errors' = errors + 1
          /\ progress' = progress
          /\ throughput' = throughput
          /\ out' = <<>>]_vars

\* two increments were made on a bar with a zero total
C4_Witness ==
    lastOp = "increment" /\ num_jobs = 0 /\ errors = 2 /\ _value > 0

(***************************************************************************)
(* C5: an increment writes the status line only if current_time minus      *)
(* last_print_time exceeds print_interval, and last_print_time changes     *)
(* only when it does; so an increment that writes a status line comes more *)
(* than print_interval after the previous one that did.                    *)
(***************************************************************************)
C5_Throttle ==
    [][(lastOp' = "increment" \/ (lastOp' = "next" /\ result' = "item")) =>
          /\ Count(out', "status") <= 1
          /\ Has(out', "status") => now' - last_print_time > print_interval
          /\ last_print_time' # last_print_time => Has(out', "status")
          /\ (Has(out', "status") /\ status_time # -1) =>
                 now' - status_time > print_interval]_vars

\* an increment made within print_interval of a status line wrote none
C5_Witness ==
    /\ lastOp = "increment" /\ num_jobs > 0
    /\ status_time # -1
    /\ now - status_time <= print_interval
    /\ now > status_time
    /\ ~Has(out, "status")

(***************************************************************************)
(* C6: after complete() returns, _value equals num_jobs, whatever          *)
(* increment and value-set calls came before.                              *)
(***************************************************************************)
C6_CompleteForcesTotal == lastOp = "complete" => _value = num_jobs

(***************************************************************************)
(* C7 as stated: _value never decreases over increment and complete()      *)
(* calls, also when an increment overshoots num_jobs before complete()     *)
(* (stated here for totals > 0 and bars on which nothing else was called). *)
(***************************************************************************)
C7_Monotone ==
    [][(lastOp' \in {"increment", "complete"} /\ num_jobs > 0
          /\ history' \in {"increment", "complete", "inc_complete"}) =>
          _value' >= _value]_vars

(***************************************************************************)
(* C7 amended: an increment or complete() call never lowers _value in the  *)
(* sequence-aware variant, and never lowers it in the integer-only variant *)
(* when it is made with _value <= num_jobs.                                *)
(***************************************************************************)
C7_MonotoneUpToTotal ==
    [][(lastOp' \in {"increment", "complete"}
          /\ (variant = "seq" \/ _value <= num_jobs)) =>
          _value' >= _value]_vars

\* complete() was called after increments had taken _value to the total
C7_Witness ==
    /\ lastOp = "complete" /\ history = "inc_complete"
    /\ variant = "int" /\ num_jobs > 0 /\ _value = num_jobs /\ progress = num_jobs
    /\ Has(out, "final")

(***************************************************************************)
(* C8: a complete() that directly follows a complete() leaves _value,      *)
(* num_jobs, errors and progress as the first one left them.               *)
(***************************************************************************)
C8_CompleteIdempotent ==
    [][(lastOp = "complete" /\ lastOp' = "complete") =>
          /\ _value' = _value
          /\ num_jobs' = num_jobs
          /\ errors' = errors
          /\ progress' = progress]_vars

\* complete() was called twice in succession on a bar it had to move
C8_Witness ==
    /\ lastOp = "complete" /\ history = "complete" /\ nops = 2
    /\ variant = "int" /\ num_jobs > 0 /\ _value = num_jobs

(***************************************************************************)
(* C9: a bar built from a list of n items has num_jobs = n; while only     *)
(* __next__ is called, the items come back in order and _value equals the  *)
(* cursor, which stays in 0..n; a __next__ call below n returns the item   *)
(* at the cursor, advances the cursor by one and makes one increment(1);   *)
(* at n it raises StopIteration and changes neither cursor nor _value.     *)
(***************************************************************************)
C9_Iteration ==
    /\ [](jobs = "list" =>
            /\ num_jobs = Len(sequence[1])
            /\ _index \in 0..Len(sequence[1])
            /\ returned = SubSeq(sequence[1], 1, _index)
            /\ history \in {"none", "next"} => _value = _index)
    /\ [][(jobs = "list" /\ lastOp' = "next") =>
            IF _index < Len(sequence[1])
            THEN /\ result' = "item"
                 /\ returned' = Append(returned, sequence[1][_index + 1])
                 /\ _index' = _index + 1
                 /\ _value' = _value + 1
                 /\ errors' = errors
            ELSE /\ result' = "StopIteration"
                 /\ returned' = returned
                 /\ _index' = _index
                 /\ _value' = _value]_vars

\* a two-item list was iterated to exhaustion
C9_Witness ==
    /\ jobs = "list" /\ history = "next" /\ result = "StopIteration"
    /\ Len(returned) = 2 /\ _value = 2 /\ num_jobs = 2

(***************************************************************************)
(* C10: with print_on_exit set, when the with-block has closed the summary *)
(* has been written exactly once since it was entered, on every exit path: *)
(* normal, the body raising, and complete() called inside the block        *)
(* (stated here for totals > 0).                                           *)
(***************************************************************************)
C10_SummaryOnce ==
    (lastOp = "exit" /\ print_on_exit /\ num_jobs > 0) => summaries = 1

(***************************************************************************)
(* C11: for a total > 0, the first increment after construction writes a   *)
(* status line, however soon after construction it is made.                *)
(***************************************************************************)
C11_FirstIncrementRenders ==
    (nops = 1 /\ lastOp = "increment" /\ num_jobs > 0) => Has(out, "status")

(***************************************************************************)
(* C12: over increment and complete() calls on one bar the 100% line with  *)
(* its newline is written at most once; in particular no call writes it    *)
(* twice, and a call that directly follows one that wrote it (an           *)
(* increment(0), a repeated complete()) does not write it again.           *)
(***************************************************************************)
C12_FinalOnce ==
    [][(history' \in {"increment", "complete", "inc_complete"}
          /\ num_jobs > 0) =>
          /\ Count(out', "final") <= 1
          /\ Has(out, "final") => ~Has(out', "final")]_vars

(***************************************************************************)
(* C13 as stated: in every variant, closing the with-block while           *)
(* _value < num_jobs records end_time and execution_time, leaves _value    *)
(* unchanged and writes no 100% line.                                      *)
(***************************************************************************)
C13_ExitLeavesValue ==
    [][(lastOp' = "exit" /\ _value < num_jobs) =>
          /\ end_time' = now'
          /\ execution_time' = end_time' - start_time
          /\ _value' = _value
          /\ ~Has(out', "final")]_vars

(***************************************************************************)
(* C13 amended: in the sequence-aware variant, closing the with-block      *)
(* while _value < num_jobs records end_time and execution_time (and writes *)
(* the summary when print_on_exit is set), leaves _value and progress      *)
(* unchanged and writes no 100% line.                                      *)
(***************************************************************************)
C13_SeqExitLeavesValue ==
    [][(lastOp' = "exit" /\ variant = "seq" /\ _value < num_jobs) =>
          /\ end_time' = now'
          /\ execution_time' = end_time' - start_time
          /\ Has(out', "summary") <=> print_on_exit
          /\ _value' = _value
          /\ progress' = progress
          /\ ~Has(out', "final")]_vars

\* a sequence-aware bar left its with-block short of the total
C13_Witness ==
    /\ lastOp = "exit" /\ variant = "seq"
    /\ 0 < _value /\ _value < num_jobs
    /\ Has(out, "summary") /\ end_time = now

(***************************************************************************)
(* C14: assigning the value property changes only _value, which reads back *)
(* as the assigned number: progress, throughput, errors, last_print_time   *)
(* and num_jobs stay as they were and nothing is written; the stale        *)
(* percentage is replaced by the next increment (here: of the              *)
(* sequence-aware variant, with a total > 0), which computes it from the   *)
(* assigned value plus its amount.                                         *)
(***************************************************************************)
C14_SetterFrame ==
    [][/\ lastOp' = "set" =>
            /\ _value' = assigned'
            /\ progress' = progress
            /\ throughput' = throughput
            /\ errors' = errors
            /\ last_print_time' = last_print_time
            /\ num_jobs' = num_jobs
            /\ execution_time' = execution_time
            /\ out' = <<>>
       /\ (lastOp = "set" /\ lastOp' = "increment" /\ variant = "seq"
              /\ num_jobs > 0) =>
            /\ _value' >= assigned
            /\ (100 * _value') \div num_jobs - progress' \in {0, 1}]_vars

\* the setter was called on a bar whose percentage it left stale
C14_Witness ==
    /\ lastOp = "set" /\ history = "mixed"
    /\ num_jobs > 0 /\ _value = 0 /\ assigned = 0 /\ progress > 0


(***************************************************************************)
(* C15: __str__ of an execution time below one second is its whole number  *)
(* of milliseconds, without decimals, with the unit "ms"; of one from 1 s  *)
(* up to but excluding 60 s it is the seconds with two decimals and the    *)
(* unit "seconds".  Neither has a prefix.                                  *)
(***************************************************************************)
C15_BelowOneMinute ==
    lastOp = "str" =>
        /\ execution_time < MsPerSecond =>
              text = Text(<<>>, Ratio(execution_time, 1), 0, "ms")
        /\ (MsPerSecond <= execution_time /\ execution_time < 60 * MsPerSecond) =>
              text = Text(<<>>, Ratio(execution_time, MsPerSecond), 2, "seconds")

\* 1.5 s gives "1.50 seconds"
C15_Witness ==
    /\ lastOp = "str" /\ execution_time = 1500
    /\ text = Text(<<>>, Ratio(1500, 1000), 2, "seconds")

\* 0.5 s gives "500 ms"
C15_WitnessMs ==
    /\ lastOp = "str" /\ execution_time = 500
    /\ text = Text(<<>>, Ratio(500, 1), 0, "ms")

(***************************************************************************)
(* C16 as stated: __str__ of an execution time from 60 s up to but         *)
(* excluding 3600 s is the seconds within the minute followed by the unit  *)
(* name "minutes".                                                         *)
(***************************************************************************)
C16_MinutesUnit ==
    (lastOp = "str" /\ 60 * MsPerSecond <= execution_time
        /\ execution_time < 3600 * MsPerSecond) =>
        /\ text.number = Ratio(execution_time % (60 * MsPerSecond), MsPerSecond)
        /\ text.unit = "minutes"

(***************************************************************************)
(* C16 amended: __str__ of an execution time from 60 s up to but excluding *)
(* 3600 s is the seconds within the minute, without decimals and without a *)
(* prefix, followed by the unit name "seconds".                            *)
(***************************************************************************)
C16_SecondsUnit ==
    (lastOp = "str" /\ 60 * MsPerSecond <= execution_time
        /\ execution_time < 3600 * MsPerSecond) =>
        text = Text(<<>>,
                    Ratio(execution_time % (60 * MsPerSecond), MsPerSecond),
                    0, "seconds")

\* 90 s gives "30 seconds"
C16_Witness ==
    /\ lastOp = "str" /\ execution_time = 90000
    /\ text = Text(<<>>, Ratio(30000, 1000), 0, "seconds")

(***************************************************************************)
(* C17: __str__ of an execution time of 3600 s or more is the hour-        *)
(* prefixed string: the prefix holds the hours, the number the minutes,    *)
(* and the unit is "minutes".                                              *)
(***************************************************************************)
C17_HourPrefixed ==
    (lastOp = "str" /\ execution_time >= 3600 * MsPerSecond) =>
        /\ Len(text.prefix) = 1
        /\ text.unit = "minutes"

(***************************************************************************)
(* C18: when main() has ended.  With a positive job count and no           *)
(* interrupt, increment() was called once for every line of standard       *)
(* input, empty ones included, and the exit status is 0; after an          *)
(* interrupt complete() was called and the exit status is 0; with the      *)
(* argument absent or "-h" the usage was printed and the exit status is 1. *)
(***************************************************************************)
C18_CliContract ==
    cli.pc = "exited" =>
        /\ (cli.argv.kind = "int" /\ cli.argv.n > 0 /\ ~cli.interrupted) =>
              /\ cli.increments = Len(cli.stdin)
              /\ cli.status = 0
        /\ cli.interrupted =>
              /\ cli.completes = 1
              /\ cli.status = 0
        /\ cli.argv.kind \in {"absent", "help"} =>
              /\ cli.usage
              /\ cli.status = 1

\* the part of C18 about empty lines, for runs that were given an argument
C18_EveryLineCounted ==
    (cli.pc = "exited" /\ cli.argv.kind = "int" /\ cli.argv.n > 0
        /\ ~cli.interrupted) =>
        cli.increments = Len(cli.stdin)

(***************************************************************************)
(* C19: the remaining time shown by an increment that renders with         *)
(* _value > 0 is (execution_time / _value) * (num_jobs - _value) in signed *)
(* arithmetic, without wrap-around: 0 when _value = num_jobs, not negative *)
(* when _value < num_jobs, not positive when _value > num_jobs.            *)
(***************************************************************************)
C19_EtaSigned ==
    (lastOp = "increment" /\ _value > 0) =>
        \A i \in 1..Len(out) :
            out[i].kind = "status" =>
                /\ out[i].eta = Eta(execution_time, _value, FALSE, num_jobs - _value)
                /\ _value = num_jobs => EtaSign(out[i].eta) = 0
                /\ _value < num_jobs => EtaSign(out[i].eta) >= 0
                /\ _value > num_jobs => EtaSign(out[i].eta) <= 0

(***************************************************************************)
(* C20: a sequence-aware bar constructed from a list or from an iterator   *)
(* holds a sequence of exactly num_jobs items, and once iteration alone    *)
(* has run to StopIteration, _value equals num_jobs.                       *)
(***************************************************************************)
C20_SequenceRetained ==
    jobs \in {"list", "iterator"} =>
        /\ Len(sequence[1]) = num_jobs
        /\ (history = "next" /\ result = "StopIteration") => _value = num_jobs
=============================================================================
